---- MODULE Spec2Model ----
(***************************************************************************)
(* A model of the HTTP server of app/main.go: the connection handler loop, *)
(* the request decoder, the response serializer, the router, the file      *)
(* store with its path containment check, and the session store with its   *)
(* periodic cleanup.                                                        *)
(*                                                                         *)
(* Byte strings are TLA+ strings; one character is one byte.  The input of *)
(* a connection is the string of bytes the client has sent and the server  *)
(* has not read yet, so that the decoder is modelled on the bytes, not on  *)
(* an already parsed request.                                              *)
(***************************************************************************)
EXTENDS Integers, Sequences, FiniteSets, TLC

(***************************************************************************)
(* Bounds of the model.                                                    *)
(***************************************************************************)
\* Number of session identifiers generateSessionID can hand out in one run.
MaxSessions == 3
\* The clock runs from 1 to MaxTime; one unit is thirty minutes.
MaxTime == 3

(***************************************************************************)
(* Strings (package strings, strconv).                                     *)
(***************************************************************************)
CharAt(s, i) == SubSeq(s, i, i)

HasPrefix(s, p) == Len(s) >= Len(p) /\ SubSeq(s, 1, Len(p)) = p

TrimPrefix(s, p) == IF HasPrefix(s, p) THEN SubSeq(s, Len(p) + 1, Len(s)) ELSE s

Contains(s, sub) ==
    \E i \in 1..(Len(s) - Len(sub) + 1) : SubSeq(s, i, i + Len(sub) - 1) = sub

RECURSIVE IndexFrom(_, _, _)
IndexFrom(s, sub, i) ==
    IF i + Len(sub) - 1 > Len(s)
    THEN 0
    ELSE IF SubSeq(s, i, i + Len(sub) - 1) = sub THEN i ELSE IndexFrom(s, sub, i + 1)

\* strings.Index: the first position of sub in s, 0 when there is none
\* (Go: -1; positions are 1-based here).
Index(s, sub) == IndexFrom(s, sub, 1)

\* strings.LastIndex for a one-byte separator.
LastIndex(s, ch) ==
    IF Contains(s, ch)
    THEN CHOOSE i \in 1..Len(s) :
            /\ CharAt(s, i) = ch
            /\ \A j \in (i + 1)..Len(s) : CharAt(s, j) # ch
    ELSE 0

IsSpace(ch) == ch \in {" ", "\t", "\n", "\r"}

RECURSIVE TrimLeft(_)
TrimLeft(s) ==
    IF Len(s) > 0 /\ IsSpace(CharAt(s, 1)) THEN TrimLeft(SubSeq(s, 2, Len(s))) ELSE s

RECURSIVE TrimRight(_)
TrimRight(s) ==
    IF Len(s) > 0 /\ IsSpace(CharAt(s, Len(s)))
    THEN TrimRight(SubSeq(s, 1, Len(s) - 1))
    ELSE s

TrimSpace(s) == TrimRight(TrimLeft(s))

\* strings.Split(s, sep) for a non-empty sep: every piece, empty ones included.
RECURSIVE Split(_, _)
Split(s, sep) ==
    LET i == Index(s, sep)
    IN  IF i = 0
        THEN <<s>>
        ELSE <<SubSeq(s, 1, i - 1)>> \o Split(SubSeq(s, i + Len(sep), Len(s)), sep)

\* strings.SplitN(s, sep, 2): cut at the first sep only.
SplitN2(s, sep) ==
    LET i == Index(s, sep)
    IN  IF i = 0
        THEN <<s>>
        ELSE <<SubSeq(s, 1, i - 1), SubSeq(s, i + Len(sep), Len(s))>>

UpperLetters == "ABCDEFGHIJKLMNOPQRSTUVWXYZ"
LowerLetters == "abcdefghijklmnopqrstuvwxyz"

LowerChar(ch) ==
    LET i == Index(UpperLetters, ch)
    IN  IF i = 0 THEN ch ELSE CharAt(LowerLetters, i)

RECURSIVE ToLower(_)
ToLower(s) ==
    IF s = "" THEN "" ELSE LowerChar(CharAt(s, 1)) \o ToLower(SubSeq(s, 2, Len(s)))

DecDigits == "0123456789"

IsDigit(ch) == Len(ch) = 1 /\ Contains(DecDigits, ch)

RECURSIVE DigitsValue(_, _)
DigitsValue(s, acc) ==
    IF s = ""
    THEN acc
    ELSE DigitsValue(SubSeq(s, 2, Len(s)), 10 * acc + (Index(DecDigits, CharAt(s, 1)) - 1))

\* strconv.Atoi as main.go uses it (cl, _ := strconv.Atoi(clStr)): the value,
\* or 0 when the text is no optionally signed decimal number.
Atoi(s) ==
    LET signed == Len(s) > 0 /\ CharAt(s, 1) \in {"+", "-"}
        digits == IF signed THEN SubSeq(s, 2, Len(s)) ELSE s
        valid  == digits # "" /\ \A i \in 1..Len(digits) : IsDigit(CharAt(digits, i))
    IN  IF ~valid
        THEN 0
        ELSE IF signed /\ CharAt(s, 1) = "-"
             THEN 0 - DigitsValue(digits, 0)
             ELSE DigitsValue(digits, 0)

\* fmt's %d of a length.
Itoa(n) == ToString(n)

(***************************************************************************)
(* net/url: QueryUnescape.                                                 *)
(***************************************************************************)
HexDigits == "0123456789abcdef"

IsHex(ch) == Len(ch) = 1 /\ Contains(HexDigits, LowerChar(ch))

Unhex(ch) == Index(HexDigits, LowerChar(ch)) - 1

\* The printable ASCII characters: codes 32 to 95 and codes 97 to 126.
AsciiLow == " !\"#$%&'()*+,-./0123456789:;<=>?@ABCDEFGHIJKLMNOPQRSTUVWXYZ[\\]^_"
AsciiHigh == "abcdefghijklmnopqrstuvwxyz{|}~"

\* The byte with code n.  The clients of the model escape the bytes above
\* only; any other code is shown as "?".
Chr(n) ==
    IF n \in 32..95
    THEN CharAt(AsciiLow, n - 31)
    ELSE IF n \in 97..126 THEN CharAt(AsciiHigh, n - 96) ELSE "?"

\* url.unescape's validation pass: every % is followed by two hex digits.
RECURSIVE EscapesValid(_)
EscapesValid(s) ==
    IF s = ""
    THEN TRUE
    ELSE IF CharAt(s, 1) = "%"
         THEN /\ Len(s) >= 3
              /\ IsHex(CharAt(s, 2))
              /\ IsHex(CharAt(s, 3))
              /\ EscapesValid(SubSeq(s, 4, Len(s)))
         ELSE EscapesValid(SubSeq(s, 2, Len(s)))

\* url.unescape's decoding pass in query-component mode: %XX is the byte XX
\* and + is a space.
RECURSIVE UnescapeBytes(_)
UnescapeBytes(s) ==
    IF s = ""
    THEN ""
    ELSE IF CharAt(s, 1) = "%"
         THEN Chr(16 * Unhex(CharAt(s, 2)) + Unhex(CharAt(s, 3)))
                 \o UnescapeBytes(SubSeq(s, 4, Len(s)))
         ELSE IF CharAt(s, 1) = "+"
              THEN " " \o UnescapeBytes(SubSeq(s, 2, Len(s)))
              ELSE CharAt(s, 1) \o UnescapeBytes(SubSeq(s, 2, Len(s)))

\* url.QueryUnescape: [ok, val]; ok is FALSE on an EscapeError.
QueryUnescape(s) ==
    IF EscapesValid(s)
    THEN [ok |-> TRUE, val |-> UnescapeBytes(s)]
    ELSE [ok |-> FALSE, val |-> ""]

(***************************************************************************)
(* path/filepath on a Unix system: Clean, Join, Abs, Ext.                  *)
(***************************************************************************)
\* The elements that remain of a path's elements after Clean's rules: empty
\* elements and "." are dropped, ".." removes the element before it, is
\* dropped at the root and is kept at the start of a relative path.
RECURSIVE CleanElems(_, _, _)
CleanElems(elems, out, rooted) ==
    IF elems = <<>>
    THEN out
    ELSE LET e    == Head(elems)
             rest == Tail(elems)
         IN  IF e = "" \/ e = "."
             THEN CleanElems(rest, out, rooted)
             ELSE IF e = ".."
                  THEN IF out # <<>> /\ out[Len(out)] # ".."
                       THEN CleanElems(rest, SubSeq(out, 1, Len(out) - 1), rooted)
                       ELSE IF rooted
                            THEN CleanElems(rest, out, rooted)
                            ELSE CleanElems(rest, Append(out, ".."), rooted)
                  ELSE CleanElems(rest, Append(out, e), rooted)

RECURSIVE JoinElems(_)
JoinElems(elems) ==
    IF elems = <<>>
    THEN ""
    ELSE IF Len(elems) = 1
         THEN elems[1]
         ELSE elems[1] \o "/" \o JoinElems(Tail(elems))

\* filepath.Clean
Clean(path) ==
    IF path = ""
    THEN "."
    ELSE LET rooted == CharAt(path, 1) = "/"
             kept   == CleanElems(Split(path, "/"), <<>>, rooted)
         IN  IF rooted
             THEN "/" \o JoinElems(kept)
             ELSE IF kept = <<>> THEN "." ELSE JoinElems(kept)

\* filepath.Join of two elements: empty elements are ignored, the rest is
\* joined with a slash and cleaned.
Join(a, b) ==
    IF a = "" /\ b = ""
    THEN ""
    ELSE IF a = ""
         THEN Clean(b)
         ELSE IF b = "" THEN Clean(a) ELSE Clean(a \o "/" \o b)

\* The working directory of the server process.
Getwd == "/srv"

\* filepath.Abs (its error, a failing Getwd, is ignored by the caller).
Abs(path) == IF HasPrefix(path, "/") THEN Clean(path) ELSE Join(Getwd, path)

\* filepath.Ext: the suffix from the last dot of the last element on.
Ext(path) ==
    LET base == SubSeq(path, LastIndex(path, "/") + 1, Len(path))
        dot  == LastIndex(base, ".")
    IN  IF dot = 0 THEN "" ELSE SubSeq(base, dot, Len(base))

\* filepath.Dir of a cleaned absolute path.
Dir(path) ==
    LET i == LastIndex(path, "/")
    IN  IF i <= 1 THEN "/" ELSE SubSeq(path, 1, i - 1)

(***************************************************************************)
(* The wire codec: request decoding.                                       *)
(***************************************************************************)
\* The value a Go map[string]string yields for a key: "" when it is absent.
Get(h, k) == IF k \in DOMAIN h THEN h[k] ELSE ""

\* The map with h[k] = v set.
Put(h, k, v) == [n \in (DOMAIN h) \cup {k} |-> IF n = k THEN v ELSE h[n]]

NoHeaders == [n \in {} |-> ""]

\* ReadString handing out the bytes before the end of the stream as a line.
ReadStringLineAtEnd(buf, open) ==
    LET i == Index(buf, "\n")
    IN  IF i > 0
        THEN [kind |-> "line", line |-> SubSeq(buf, 1, i), rest |-> SubSeq(buf, i + 1, Len(buf))]
        ELSE IF open
             THEN [kind |-> "blocked", line |-> "", rest |-> buf]
             ELSE IF buf # ""
                  THEN [kind |-> "line", line |-> buf, rest |-> ""]
                  ELSE [kind |-> "err", line |-> "", rest |-> ""]

\* bufio.Reader.ReadString('\n') on the unread bytes buf of a connection whose
\* peer is open or not: the line with its newline and the bytes after it; an
\* error when the stream ends first; blocked while more bytes may come.
ReadString(buf, open) ==
    LET i == Index(buf, "\n")
    IN  IF i > 0
        THEN [kind |-> "line", line |-> SubSeq(buf, 1, i), rest |-> SubSeq(buf, i + 1, Len(buf))]
        ELSE IF open
             THEN [kind |-> "blocked", line |-> "", rest |-> buf]
             ELSE [kind |-> "err", line |-> "", rest |-> ""]

\* parseHeaders: header lines up to the first empty one; a line is split at
\* its first ": ", a line without one is skipped, a repeated name overwrites.
RECURSIVE ParseHeadersFrom(_, _, _)
ParseHeadersFrom(buf, open, headers) ==
    LET r == ReadString(buf, open)
    IN  IF r.kind # "line"
        THEN [kind |-> r.kind, headers |-> NoHeaders, rest |-> r.rest]
        ELSE LET line  == TrimSpace(r.line)
                 parts == SplitN2(line, ": ")
             IN  IF line = ""
                 THEN [kind |-> "ok", headers |-> headers, rest |-> r.rest]
                 ELSE IF Len(parts) = 2
                      THEN ParseHeadersFrom(r.rest, open, Put(headers, parts[1], parts[2]))
                      ELSE ParseHeadersFrom(r.rest, open, headers)

parseHeaders(buf, open) == ParseHeadersFrom(buf, open, NoHeaders)

\* The byte 0x00 of a freshly made []byte, which no TLA+ string can hold.
Nul == "~"

RECURSIVE Zeros(_)
Zeros(n) == IF n <= 0 THEN "" ELSE Nul \o Zeros(n - 1)

\* body = make([]byte, cl); io.ReadFull(reader, body), the error dropped: the
\* next cl bytes; when the stream ends first, the bytes there are and zeros.
ReadFull(buf, open, cl) ==
    IF Len(buf) >= cl
    THEN [kind |-> "ok", body |-> SubSeq(buf, 1, cl), rest |-> SubSeq(buf, cl + 1, Len(buf))]
    ELSE IF open
         THEN [kind |-> "blocked", body |-> "", rest |-> buf]
         ELSE [kind |-> "short", body |-> buf \o Zeros(cl - Len(buf)), rest |-> ""]

\* The body of a request with these headers: none without a Content-Length
\* entry; make([]byte, cl) panics on a negative cl.
ReadBody(headers, buf, open) ==
    IF "Content-Length" \notin DOMAIN headers
    THEN [kind |-> "ok", body |-> "", rest |-> buf]
    ELSE LET cl == Atoi(headers["Content-Length"])
         IN  IF cl < 0
             THEN [kind |-> "panic", body |-> "", rest |-> buf]
             ELSE ReadFull(buf, open, cl)

NoRequest ==
    [method |-> "", path |-> "", headers |-> NoHeaders, body |-> "", short |-> FALSE]

\* The test of the request line asking for a method and a path only.
MalformedUnderTwo(parts) == Len(parts) < 2

\* The test handleConnection applies to the parts of the request line.
Malformed(parts) == Len(parts) < 3

\* One iteration of handleConnection's loop up to the decoded request.  kind:
\*   "blocked" the handler waits for bytes, "eof" a read error ends the loop,
\*   "blank" an empty request line is skipped, "bad" a request line of fewer
\*   than three parts, "panic" make([]byte, cl) with cl < 0, "req" a request.
Decode(buf, open) ==
    LET r == ReadString(buf, open)
    IN  IF r.kind = "blocked"
        THEN [kind |-> "blocked", req |-> NoRequest, rest |-> buf]
        ELSE IF r.kind = "err"
        THEN [kind |-> "eof", req |-> NoRequest, rest |-> ""]
        ELSE LET requestLine == TrimSpace(r.line)
                 parts       == Split(requestLine, " ")
             IN  IF requestLine = ""
                 THEN [kind |-> "blank", req |-> NoRequest, rest |-> r.rest]
                 ELSE IF Malformed(parts)
                 THEN [kind |-> "bad", req |-> NoRequest, rest |-> r.rest]
                 ELSE LET h == parseHeaders(r.rest, open)
                      IN  IF h.kind = "blocked"
                          THEN [kind |-> "blocked", req |-> NoRequest, rest |-> buf]
                          ELSE IF h.kind = "err"
                          THEN [kind |-> "eof", req |-> NoRequest, rest |-> ""]
                          ELSE LET b == ReadBody(h.headers, h.rest, open)
                               IN  IF b.kind = "blocked"
                                   THEN [kind |-> "blocked", req |-> NoRequest, rest |-> buf]
                                   ELSE IF b.kind = "panic"
                                   THEN [kind |-> "panic", req |-> NoRequest, rest |-> b.rest]
                                   ELSE [kind |-> "req",
                                         req  |-> [method  |-> parts[1],
                                                   path    |-> parts[2],
                                                   headers |-> h.headers,
                                                   body    |-> b.body,
                                                   short   |-> b.kind = "short"],
                                         rest |-> b.rest]

\* getSessionCookie: the value of the first "session=" part of a Cookie header.
RECURSIVE FirstSessionPart(_)
FirstSessionPart(cookieParts) ==
    IF cookieParts = <<>>
    THEN ""
    ELSE LET part == TrimSpace(Head(cookieParts))
         IN  IF HasPrefix(part, "session=")
             THEN TrimPrefix(part, "session=")
             ELSE FirstSessionPart(Tail(cookieParts))

getSessionCookie(cookies) ==
    IF cookies = "" THEN "" ELSE FirstSessionPart(Split(cookies, ";"))

\* supportsGzip that looks at the first part of Accept-Encoding only.
supportsGzipFirstPart(acceptEncoding) ==
    acceptEncoding # "" /\ TrimSpace(Split(acceptEncoding, ",")[1]) = "gzip"

\* supportsGzip: some comma-separated part of Accept-Encoding is exactly gzip.
supportsGzip(acceptEncoding) ==
    IF acceptEncoding = ""
    THEN FALSE
    ELSE LET encodings == Split(acceptEncoding, ",")
         IN  \E i \in 1..Len(encodings) : TrimSpace(encodings[i]) = "gzip"

\* closeConn without the strings.ToLower.
closeConnAsSent(headers) == Get(headers, "Connection") = "close"

\* closeConn := strings.ToLower(headers["Connection"]) == "close"
closeConn(headers) == ToLower(Get(headers, "Connection")) = "close"

(***************************************************************************)
(* The wire codec: response encoding.                                      *)
(***************************************************************************)
\* compress/gzip: the member that holds b.  The model keeps the framing (a
\* header, the deflated bytes, a trailer) and not the bit-level encoding.
Gzip(b) == "<gzip:" \o b \o ":gzip>"

\* The orders in which `for key, value := range headers` can visit a map.
Orders(h) ==
    LET n == Cardinality(DOMAIN h)
    IN  {o \in [1..n -> DOMAIN h] : \A i, j \in 1..n : i # j => o[i] # o[j]}

RECURSIVE LinesBytes(_)
LinesBytes(lines) ==
    IF lines = <<>>
    THEN ""
    ELSE Head(lines)[1] \o ": " \o Head(lines)[2] \o "\r\n" \o LinesBytes(Tail(lines))

\* The Content-Length line sendResponse writes for the body it was given and
\* the body it sends: the length of the latter.
ContentLengthOfGivenBody(body, final) == Itoa(Len(body))

ContentLength(body, final) == Itoa(Len(final))

\* sendResponse.  order is the order in which the range over headers runs and
\* up tells whether a conn.Write succeeds.  The result holds the status, the
\* header lines in the order written, the body after the gzip step, and the
\* conn.Write calls made, each with its bytes and outcome.
sendResponse(statusCode, statusText, contentType, body, headers, gz, closeConnection, order, up) ==
    LET compress == gz /\ Len(body) > 0
        final    == IF compress THEN Gzip(body) ELSE body
        lines    ==
            (IF contentType # "" THEN <<(<<"Content-Type", contentType>>)>> ELSE <<>>)
            \o (IF closeConnection THEN <<(<<"Connection", "close">>)>> ELSE <<>>)
            \o [i \in 1..Len(order) |-> <<order[i], headers[order[i]]>>]
            \o (IF compress THEN <<(<<"Content-Encoding", "gzip">>)>> ELSE <<>>)
            \o <<(<<"Content-Length", ContentLength(body, final)>>)>>
        head     == "HTTP/1.1 " \o Itoa(statusCode) \o " " \o statusText \o "\r\n"
                        \o LinesBytes(lines) \o "\r\n"
    IN  [status |-> statusCode,
         text   |-> statusText,
         lines  |-> lines,
         body   |-> final,
         writes |-> <<[data |-> head, ok |-> up]>>
                        \o (IF Len(final) > 0 THEN <<[data |-> final, ok |-> up]>> ELSE <<>>)]

(***************************************************************************)
(* The state.                                                              *)
(***************************************************************************)
VARIABLES
    workload,   \* what the clients of this run send (fixed by Init)
    pc,         \* pc[c]: where the handler of connection c stands
    inbuf,      \* inbuf[c]: the bytes sent on c that the handler has not read
    peerOpen,   \* peerOpen[c]: the client has not closed its end of c
    cur,        \* cur[c]: the request the handler of c is working on
    out,        \* out[c]: the exchanges answered on c that the client has not read
    jar,        \* jar[c]: the session cookie the client of c holds ("" for none)
    sessions,   \* SessionManager.sessions: identifier -> time of last access
    born,       \* the time CreateSession made each identifier (history)
    nextSid,    \* the number of identifiers generateSessionID has made, plus one
    now,        \* time.Now(), in units of thirty minutes
    files,      \* the regular files of the file system: absolute path -> bytes
    dirs,       \* the directories of the file system
    crashed     \* the process died of a panic in one of its goroutines

vars == <<workload, pc, inbuf, peerOpen, cur, out, jar, sessions, born, nextSid,
          now, files, dirs, crashed>>

Connections == {"c1", "c2"}

(***************************************************************************)
(* The session store.                                                      *)
(***************************************************************************)
\* The zero time.Time, which GetSession returns for an unknown identifier.
\* The clock of the model starts after it.
ZeroTime == 0

\* now.Sub(lastAccess) > 30*time.Minute, in units of thirty minutes.
IdleWindow == 1

\* generateSessionID: 32 random letters and digits.  The model hands out the
\* identifiers sid1, sid2, ... and so never the same one twice.
generateSessionID == "sid" \o Itoa(nextSid)

\* SessionManager.GetSession
GetSession(sessionID) ==
    [timestamp |-> IF sessionID \in DOMAIN sessions THEN sessions[sessionID] ELSE ZeroTime,
     exists    |-> sessionID \in DOMAIN sessions]

\* SessionManager.CreateSession: the store after it.
CreateSession == Put(sessions, generateSessionID, now)

\* UpdateSession leaving the time of last access as it is.
UpdateSessionNoRefresh(sessionID) == sessions

\* SessionManager.UpdateSession: the store after it.
UpdateSession(sessionID) == Put(sessions, sessionID, now)

\* The sweep with the comparison turned round.
CleanupSessionsReversed ==
    LET kept == {id \in DOMAIN sessions : ~(now - sessions[id] < IdleWindow)}
    IN  [id \in kept |-> sessions[id]]

\* The sweep with the comparison "at least thirty minutes".
CleanupSessionsAtLeast ==
    LET kept == {id \in DOMAIN sessions : ~(now - sessions[id] >= IdleWindow)}
    IN  [id \in kept |-> sessions[id]]

\* SessionManager.CleanupSessions: the store after it.
CleanupSessions ==
    LET kept == {id \in DOMAIN sessions : ~(now - sessions[id] > IdleWindow)}
    IN  [id \in kept |-> sessions[id]]

(***************************************************************************)
(* The file system under the calls main.go makes (os, io/ioutil).          *)
(***************************************************************************)
\* Config.Directory, as main sets it when no --directory is given.
Directory == "."

\* filepath.Join(s.config.Directory, "files")
FilesDir == Join(Directory, "files")

\* What a call finds on the disk: "ok", "eio" (the call fails with an I/O
\* error before it changes anything) or "trunc" (WriteFile has created or
\* truncated the file when its write fails).
IoOutcomes == {"ok", "eio", "trunc"}

AncestorIsFile(p) == \E f \in DOMAIN files : HasPrefix(p, f \o "/")

Base(p) == SubSeq(p, LastIndex(p, "/") + 1, Len(p))

Code(ch) ==
    IF Contains(AsciiLow, ch)
    THEN Index(AsciiLow, ch) + 31
    ELSE IF Contains(AsciiHigh, ch) THEN Index(AsciiHigh, ch) + 96 ELSE 0

RECURSIVE StrLess(_, _)
StrLess(a, b) ==
    IF b = ""
    THEN FALSE
    ELSE IF a = ""
         THEN TRUE
         ELSE IF CharAt(a, 1) = CharAt(b, 1)
              THEN StrLess(SubSeq(a, 2, Len(a)), SubSeq(b, 2, Len(b)))
              ELSE Code(CharAt(a, 1)) < Code(CharAt(b, 1))

RECURSIVE SortedNames(_)
SortedNames(names) ==
    IF names = {}
    THEN <<>>
    ELSE LET least == CHOOSE n \in names : \A m \in names \ {n} : StrLess(n, m)
         IN  <<least>> \o SortedNames(names \ {least})

\* ioutil.ReadFile(path): [ok, data]
ReadFile(path, io) ==
    LET p == Abs(path)
    IN  IF io = "ok" /\ p \in DOMAIN files
        THEN [ok |-> TRUE, data |-> files[p]]
        ELSE [ok |-> FALSE, data |-> ""]

\* WriteFile without the truncation: the body is appended to what is there.
WriteFileAppending(path, body, io) ==
    LET p   == Abs(path)
        can == p \notin dirs /\ ~AncestorIsFile(p) /\ Dir(p) \in dirs
        old == IF p \in DOMAIN files THEN files[p] ELSE ""
    IN  IF ~can \/ io = "eio"
        THEN [ok |-> FALSE, files |-> files]
        ELSE IF io = "trunc"
             THEN [ok |-> FALSE, files |-> Put(files, p, old)]
             ELSE [ok |-> TRUE, files |-> Put(files, p, old \o body)]

\* ioutil.WriteFile(path, body, 0644): [ok, files], the files after the call.
WriteFile(path, body, io) ==
    LET p      == Abs(path)
        can    == p \notin dirs /\ ~AncestorIsFile(p) /\ Dir(p) \in dirs
    IN  IF ~can \/ io = "eio"
        THEN [ok |-> FALSE, files |-> files]
        ELSE IF io = "trunc"
             THEN [ok |-> FALSE, files |-> Put(files, p, "")]
             ELSE [ok |-> TRUE, files |-> Put(files, p, body)]

\* os.Remove(path): [ok, notExist, files, dirs]; notExist is os.IsNotExist of
\* the error.  A directory is removed when it is empty.
Remove(path, io) ==
    LET p     == Abs(path)
        empty == /\ \A f \in DOMAIN files : Dir(f) # p
                 /\ \A d \in dirs : d = p \/ Dir(d) # p
    IN  IF io # "ok"
        THEN [ok |-> FALSE, notExist |-> FALSE, files |-> files, dirs |-> dirs]
        ELSE IF p \in DOMAIN files
        THEN [ok |-> TRUE, notExist |-> FALSE,
              files |-> [f \in (DOMAIN files) \ {p} |-> files[f]], dirs |-> dirs]
        ELSE IF p \in dirs
        THEN IF empty /\ p # "/"
             THEN [ok |-> TRUE, notExist |-> FALSE, files |-> files, dirs |-> dirs \ {p}]
             ELSE [ok |-> FALSE, notExist |-> FALSE, files |-> files, dirs |-> dirs]
        ELSE [ok |-> FALSE, notExist |-> ~AncestorIsFile(p), files |-> files, dirs |-> dirs]

\* ioutil.ReadDir(path): [ok, names], the entry names sorted.
ReadDir(path, io) ==
    LET p == Abs(path)
    IN  IF io # "ok" \/ p \notin dirs
        THEN [ok |-> FALSE, names |-> <<>>]
        ELSE [ok |-> TRUE,
              names |-> SortedNames({Base(f) : f \in {g \in DOMAIN files : Dir(g) = p}}
                                    \cup {Base(d) : d \in {e \in dirs : e # p /\ Dir(e) = p}})]

(***************************************************************************)
(* The handlers.  Each yields the response written, the file system it     *)
(* leaves and the paths it has passed to a file system call.  rh is        *)
(* responseHeaders, gz clientSupportsGzip, cl closeConn; order, up and io  *)
(* are as in sendResponse and in the file system calls.                    *)
(***************************************************************************)
Unchanged(resp) == [resp |-> resp, files |-> files, dirs |-> dirs, touched |-> {}]

\* The result r of a handler that has passed path to a file system call.
Touching(path, r) == [r EXCEPT !.touched = {Abs(path)}]

\* time.Time.Format(time.RFC3339)
RFC3339(t) == IF t = ZeroTime THEN "0001-01-01T00:00:00Z" ELSE "T" \o Itoa(t)

\* time.Since(t).String(): the elapsed time, which saturates at the largest
\* Duration for the zero time.
SinceString(t) ==
    LET minutes == 30 * (now - t)
        h       == minutes \div 60
        m       == minutes % 60
    IN  IF t = ZeroTime
        THEN "2562047h47m16.854775807s"
        ELSE IF h > 0
             THEN Itoa(h) \o "h" \o Itoa(m) \o "m0s"
             ELSE IF m > 0 THEN Itoa(m) \o "m0s" ELSE "0s"

\* json.Marshal of a string that needs no escaping.
Quote(str) == "\"" \o str \o "\""

RECURSIVE ListItems(_)
ListItems(names) ==
    IF names = <<>>
    THEN ""
    ELSE "<li><a href=\"/files/" \o Head(names) \o "\">" \o Head(names) \o "</a></li>"
            \o ListItems(Tail(names))

handleDirectoryListing(rh, gz, cl, order, up, io) ==
    LET listing == ReadDir(FilesDir, io)
    IN  Touching(FilesDir,
        IF ~listing.ok
        THEN Unchanged(sendResponse(500, "Internal Server Error", "text/plain",
                                    "Error reading directory", rh, gz, cl, order, up))
        ELSE Unchanged(sendResponse(200, "OK", "text/html",
                "<html><head><title>Directory Listing</title></head><body>"
                    \o "<h1>Directory Listing</h1><ul>"
                    \o ListItems(listing.names)
                    \o "</ul></body></html>",
                rh, gz, cl, order, up)))

handleFileGet(filePath, rh, gz, cl, order, up, io) ==
    LET got == ReadFile(filePath, io)
        ext == Ext(filePath)
        contentType ==
            IF ext = ".txt" THEN "text/plain"
            ELSE IF ext = ".html" THEN "text/html"
            ELSE IF ext = ".json" THEN "application/json"
            ELSE "application/octet-stream"
    IN  Touching(filePath,
        IF ~got.ok
        THEN Unchanged(sendResponse(404, "Not Found", "text/plain", "File not found",
                                    rh, gz, cl, order, up))
        ELSE Unchanged(sendResponse(200, "OK", contentType, got.data, rh, gz, cl, order, up)))

handleFileCreate(filePath, body, rh, gz, cl, order, up, io) ==
    LET w == WriteFile(filePath, body, io)
    IN  Touching(filePath,
        IF ~w.ok
        THEN [Unchanged(sendResponse(500, "Internal Server Error", "text/plain",
                                     "Error writing file", rh, gz, cl, order, up))
                 EXCEPT !.files = w.files]
        ELSE [Unchanged(sendResponse(201, "Created", "text/plain", "File created",
                                     rh, gz, cl, order, up))
                 EXCEPT !.files = w.files])

handleFileDelete(filePath, rh, gz, cl, order, up, io) ==
    LET r == Remove(filePath, io)
    IN  Touching(filePath,
        IF ~r.ok
        THEN IF r.notExist
             THEN Unchanged(sendResponse(404, "Not Found", "text/plain", "File not found",
                                         rh, gz, cl, order, up))
             ELSE Unchanged(sendResponse(500, "Internal Server Error", "text/plain",
                                         "Error deleting file", rh, gz, cl, order, up))
        ELSE [Unchanged(sendResponse(200, "OK", "text/plain", "File deleted",
                                     rh, gz, cl, order, up))
                 EXCEPT !.files = r.files, !.dirs = r.dirs])

\* The containment check without its test for two dots in the name.
TraversalDetectedByPrefixOnly(filename) ==
    ~HasPrefix(Abs(Join(FilesDir, filename)), Abs(FilesDir))

\* The containment check of handleFiles on the decoded name: TRUE when the
\* request is refused.
TraversalDetected(filename) ==
    LET filePath    == Join(FilesDir, filename)
        absFilesDir == Abs(FilesDir)
        absFilePath == Abs(filePath)
    IN  ~HasPrefix(absFilePath, absFilesDir) \/ Contains(filename, "..")

\* The method switch with PUT handled as POST is.
MethodSwitchPutCreates(method, filePath, body, rh, gz, cl, order, up, io) ==
    IF method = "GET"
    THEN handleFileGet(filePath, rh, gz, cl, order, up, io)
    ELSE IF method \in {"POST", "PUT"}
    THEN handleFileCreate(filePath, body, rh, gz, cl, order, up, io)
    ELSE IF method = "DELETE"
    THEN handleFileDelete(filePath, rh, gz, cl, order, up, io)
    ELSE Unchanged(sendResponse(405, "Method Not Allowed", "text/plain",
                                "Method not allowed", rh, gz, cl, order, up))

\* The switch on the method that ends handleFiles.
MethodSwitch(method, filePath, body, rh, gz, cl, order, up, io) ==
    IF method = "GET"
    THEN handleFileGet(filePath, rh, gz, cl, order, up, io)
    ELSE IF method = "POST"
    THEN handleFileCreate(filePath, body, rh, gz, cl, order, up, io)
    ELSE IF method = "DELETE"
    THEN handleFileDelete(filePath, rh, gz, cl, order, up, io)
    ELSE Unchanged(sendResponse(405, "Method Not Allowed", "text/plain",
                                "Method not allowed", rh, gz, cl, order, up))

handleFiles(method, path, body, rh, gz, cl, order, up, io) ==
    IF path = "/files" \/ path = "/files/"
    THEN handleDirectoryListing(rh, gz, cl, order, up, io)
    ELSE LET decoded  == QueryUnescape(TrimPrefix(path, "/files/"))
             filename == decoded.val
             filePath == Join(FilesDir, filename)
         IN  IF ~decoded.ok
             THEN Unchanged(sendResponse(400, "Bad Request", "text/plain",
                                         "Invalid URL encoding", rh, gz, cl, order, up))
             ELSE IF TraversalDetected(filename)
             THEN Unchanged(sendResponse(403, "Forbidden", "text/plain",
                                         "Path traversal not allowed", rh, gz, cl, order, up))
             ELSE MethodSwitch(method, filePath, body, rh, gz, cl, order, up, io)

\* The echoed string, percent-decoded as a file name is.
echoStringUnescaped(path) == QueryUnescape(TrimPrefix(path, "/echo/")).val

\* echoString of handleRequest: what follows the prefix, as received.
echoString(path) == TrimPrefix(path, "/echo/")

\* The user agent looked up under the lower-case name.
userAgentLowerKey(headers) == Get(headers, "user-agent")

\* userAgent of handleRequest: the value stored under User-Agent, "" when
\* there is none.
userAgent(headers) == Get(headers, "User-Agent")

\* The files case matching only below the directory.
filesCaseBelowOnly(path) == HasPrefix(path, "/files/")

\* The case of the switch that hands the request to handleFiles.
filesCase(path) == HasPrefix(path, "/files")

handleRequest(method, path, headers, body, rh, gz, cl, order, up, io) ==
    IF path = "/"
    THEN Unchanged(sendResponse(200, "OK", "text/plain", "Welcome to the Go Web Server",
                                rh, gz, cl, order, up))
    ELSE IF HasPrefix(path, "/echo/")
    THEN Unchanged(sendResponse(200, "OK", "text/plain", echoString(path),
                                rh, gz, cl, order, up))
    ELSE IF path = "/user-agent"
    THEN IF method # "GET"
         THEN Unchanged(sendResponse(405, "Method Not Allowed", "text/plain",
                                     "Method not allowed", rh, gz, cl, order, up))
         ELSE Unchanged(sendResponse(200, "OK", "text/plain", userAgent(headers),
                                     rh, gz, cl, order, up))
    ELSE IF path = "/api/status"
    THEN Unchanged(sendResponse(200, "OK", "application/json",
                "{\"status\":\"ok\",\"time\":" \o Quote(RFC3339(now)) \o "}",
                rh, gz, cl, order, up))
    ELSE IF path = "/api/time"
    THEN Unchanged(sendResponse(200, "OK", "application/json",
                "{\"time\":" \o Quote(RFC3339(now)) \o "}",
                rh, gz, cl, order, up))
    ELSE IF path = "/api/echo"
    THEN IF method # "POST" /\ method # "PUT"
         THEN Unchanged(sendResponse(405, "Method Not Allowed", "text/plain",
                                     "Method not allowed", rh, gz, cl, order, up))
         ELSE Unchanged(sendResponse(200, "OK", "application/json", body,
                                     rh, gz, cl, order, up))
    ELSE IF path = "/api/session"
    THEN LET cookie    == getSessionCookie(Get(headers, "Cookie"))
             timestamp == GetSession(cookie).timestamp
         IN  Unchanged(sendResponse(200, "OK", "application/json",
                "{\"age\":" \o Quote(SinceString(timestamp))
                    \o ",\"created_at\":" \o Quote(RFC3339(timestamp))
                    \o ",\"session_id\":" \o Quote(cookie) \o "}",
                rh, gz, cl, order, up))
    ELSE IF filesCase(path)
    THEN handleFiles(method, path, body, rh, gz, cl, order, up, io)
    ELSE Unchanged(sendResponse(404, "Not Found", "text/plain", "Not Found",
                                rh, gz, cl, order, up))

(***************************************************************************)
(* The clients.  A run has one workload: the requests its clients choose   *)
(* from, the connections they open, and whether they hang up and whether   *)
(* time passes.  A client that holds a session cookie sends it along, as   *)
(* curl does with a cookie jar.                                            *)
(***************************************************************************)
Workloads == {"routes", "files", "traversal", "codec", "sessions", "shared"}

CRLF == "\r\n"

Line(name, value) == name \o ": " \o value \o CRLF

\* The bytes of a request with these header lines and this body.
Request(method, path, headerLines, body) ==
    method \o " " \o path \o " HTTP/1.1" \o CRLF \o headerLines \o CRLF \o body

CookieLine(j) == IF j = "" THEN "" ELSE Line("Cookie", "session=" \o j)

LengthLine(body) == IF body = "" THEN "" ELSE Line("Content-Length", Itoa(Len(body)))

EncodingLine(ae) == IF ae = "" THEN "" ELSE Line("Accept-Encoding", ae)

Methods == {"GET", "POST", "PUT", "DELETE", "HEAD"}

RoutePaths ==
    {"/", "/echo/abc", "/echo/%41+b", "/echo/", "/echo", "/user-agent", "/api/status", "/api/time",
     "/api/echo", "/api/session", "/api/session?x=1", "/files", "/files/", "/nonexistent"}

\* Every method on every route, with and without gzip; bodies for /api/echo;
\* the other spellings of Accept-Encoding; a short request line; the same
\* request twice in one piece.
RouteRequests(j) ==
    {Request(m, p, CookieLine(j) \o EncodingLine(ae), "") :
        m \in Methods, p \in RoutePaths, ae \in {"", "gzip"}}
    \cup {Request(m, "/api/echo", CookieLine(j) \o EncodingLine(ae) \o LengthLine("hi"), "hi") :
        m \in {"POST", "PUT", "GET"}, ae \in {"", "gzip"}}
    \cup {Request("GET", "/", CookieLine(j) \o EncodingLine(ae), "") :
        ae \in {"deflate, gzip", "deflate", "GZIP", "gzip;q=1.0", "gzip,br"}}
    \cup {"GET /" \o CRLF \o EncodingLine("gzip") \o CRLF}
    \cup {Request("GET", "/", CookieLine(j), "") \o Request("GET", "/", CookieLine(j), "")}

\* Requests for two plain names under /files/, with the bodies posted.
PlainNames == {"a", "t.txt"}

FileBodies == {"x", "yz"}

FileRequests(j) ==
    {Request(m, "/files/" \o n, CookieLine(j), "") :
        m \in {"GET", "DELETE", "PUT"}, n \in PlainNames}
    \cup {Request("POST", "/files/" \o n, CookieLine(j) \o LengthLine(b), b) :
        n \in PlainNames, b \in FileBodies}
    \cup {Request("POST", "/files/a", CookieLine(j) \o Line("Content-Length", "0"), ""),
          Request("GET", "/files/", CookieLine(j), ""),
          Request("GET", "/files/a", CookieLine(j) \o EncodingLine("gzip"), "")}

\* The names that are no plain names: names that leave the directory with
\* literal or escaped dot segments, names with two dots that stay inside it,
\* broken escapes, and names of directories.
OddNames ==
    {"a+b", "sub/a", ".", "/a", "a..b", "a/../t.txt",
     "..", "../secret", "../files2", "../../etc/passwd", "a/../../secret",
     "%2e%2e/secret", "%2E%2E/files2", ".%2e/secret", "..%2fsecret",
     "%2e%2e%2f%2e%2e%2fetc%2fpasswd", "%252e%252e/secret", "%zz", "%2", "..%zz"}

TraversalRequests(j) ==
    {Request(m, "/files/" \o n, CookieLine(j), "") :
        m \in {"GET", "DELETE", "PUT"}, n \in OddNames}
    \cup {Request("POST", "/files/" \o n, CookieLine(j) \o LengthLine("x"), "x") : n \in OddNames}
    \cup {Request(m, p, CookieLine(j), "") :
        m \in {"GET", "DELETE"}, p \in {"/files", "/files../secret", "/filesx"}}
    \cup {Request("POST", "/filesx", CookieLine(j) \o LengthLine("x"), "x")}

\* Header lines in the spelling main.go looks up, in other letter cases, with
\* values it accepts and values it does not, and repeated.
HeaderBlocks(j) ==
    {"",
     Line("Connection", "close"), Line("connection", "close"), Line("CONNECTION", "close"),
     Line("Connection", "Close"), Line("Connection", "keep-alive"), "Connection:close" \o CRLF,
     Line("Connection", "close") \o Line("Connection", "keep-alive"),
     Line("Connection", "keep-alive") \o Line("Connection", "close"),
     Line("Accept-Encoding", "gzip"), Line("accept-encoding", "gzip"),
     Line("Accept-Encoding", "br") \o Line("Accept-Encoding", "gzip"),
     Line("User-Agent", "X"), Line("user-agent", "X"),
     Line("User-Agent", "Y") \o Line("User-Agent", "X"),
     "no colon here" \o CRLF,
     Line("Cookie", "session=" \o j), Line("cookie", "session=" \o j)}

LengthBlocks ==
    {"", Line("Content-Length", "2"), Line("content-length", "2"),
     Line("CONTENT-LENGTH", "2"), Line("Content-Length", "1") \o Line("Content-Length", "2"),
     Line("Content-Length", "abc"), Line("Content-Length", "-1"), Line("Content-Length", "5")}

CodecRequests(j) ==
    {Request("GET", p, h, "") : p \in {"/", "/user-agent"}, h \in HeaderBlocks(j)}
    \cup {Request("POST", "/api/echo", h, "hi") : h \in LengthBlocks}
    \cup {Request("POST", "/files/a", Line("Content-Length", "5"), "hi")}
    \cup {Request("GET", "/user-agent", Line("User-Agent", "X"), "")
             \o Request("GET", "/echo/abc", "", "")}
    \cup {Request("POST", "/api/echo", Line("Content-Length", "2"), "h\n"),
          Request("POST", "/api/echo", Line("content-length", "2"), "h\n")}
    \cup {"GET /" \o CRLF \o CRLF, "GET" \o CRLF, CRLF, "GET  / HTTP/1.1" \o CRLF \o CRLF,
          "GET / HTTP/1.1 x" \o CRLF \o CRLF,
          "GET / HTTP/1.1" \o CRLF \o Line("User-Agent", "X"), "GET / HT"}

\* What a client sends after bytes the handler has left unread.
FollowUps(j) == {Request("GET", "/", CookieLine(j), "")}

SessionRequests(j) ==
    {Request("GET", p, IF ck = "" THEN "" ELSE Line("Cookie", ck), "") :
        p \in {"/", "/api/session"},
        ck \in {"", "session=" \o j, "session=bogus", "theme=dark; session=" \o j}}

SharedRequests(j) ==
    {Request("GET", "/", CookieLine(j), ""),
     Request("GET", "/files/a", CookieLine(j), ""),
     Request("POST", "/files/a", CookieLine(j) \o LengthLine("x"), "x"),
     Request("POST", "/files/a", CookieLine(j) \o Line("Content-Length", "-1"), "x")}

\* The requests a client holding cookie j chooses from.
Requests(w, j) ==
    IF w = "routes" THEN RouteRequests(j)
    ELSE IF w = "files" THEN FileRequests(j)
    ELSE IF w = "traversal" THEN TraversalRequests(j)
    ELSE IF w = "codec" THEN CodecRequests(j)
    ELSE IF w = "sessions" THEN SessionRequests(j)
    ELSE SharedRequests(j)

\* The connections clients open.
Conns(w) == IF w = "shared" THEN Connections ELSE {"c1"}

\* Whether clients hang up, whether the clock moves, how the disk answers.
MayHangUp(w) == w = "codec"
MayTick(w) == w = "sessions"
DiskOutcomes(w) == IF w = "files" THEN IoOutcomes ELSE {"ok"}

\* The orders of the range over responseHeaders that a run explores: all of
\* them under the routes workload, the sorted one under the others.
Orderings(w, rh) == IF w = "routes" THEN Orders(rh) ELSE {SortedNames(DOMAIN rh)}

(***************************************************************************)
(* The initial state: the server has started (Start has made the files     *)
(* directory and listens), no connection is open, no session exists.       *)
(***************************************************************************)
NoSessions == [id \in {} |-> ZeroTime]

NoCur == [req |-> NoRequest, sessionID |-> "", rh |-> NoHeaders, gz |-> FALSE, close |-> FALSE]

InitialDirs == {"/", "/etc", "/srv", Abs(FilesDir)}

InitialFiles ==
    Put(Put(Put(NoHeaders, "/etc/passwd", "root:x:0:0"), "/srv/secret", "secret"),
        "/srv/files2", "other")

Init ==
    /\ workload \in Workloads
    /\ pc = [c \in Connections |-> "none"]
    /\ inbuf = [c \in Connections |-> ""]
    /\ peerOpen = [c \in Connections |-> TRUE]
    /\ cur = [c \in Connections |-> NoCur]
    /\ out = [c \in Connections |-> <<>>]
    /\ jar = [c \in Connections |-> ""]
    /\ sessions = NoSessions
    /\ born = NoSessions
    /\ nextSid = 1
    /\ now = 1
    /\ files = InitialFiles
    /\ dirs = InitialDirs
    /\ crashed = FALSE

(***************************************************************************)
(* The clients' steps.                                                     *)
(***************************************************************************)
\* The client of c sends a request when it has read every response and the
\* handler waits for bytes.
ClientSend(c) ==
    /\ pc[c] = "read"
    /\ ~crashed
    /\ peerOpen[c]
    /\ out[c] = <<>>
    /\ Decode(inbuf[c], TRUE).kind = "blocked"
    /\ \E m \in (IF inbuf[c] = "" THEN Requests(workload, jar[c]) ELSE FollowUps(jar[c])) :
          inbuf' = [inbuf EXCEPT ![c] = @ \o m]
    /\ UNCHANGED <<workload, pc, peerOpen, cur, out, jar, sessions, born, nextSid, now,
                   files, dirs, crashed>>

\* The value of the session cookie a response sets, "" when it sets none.
SetCookieOf(resp) ==
    LET set == {i \in 1..Len(resp.lines) : resp.lines[i][1] = "Set-Cookie"}
    IN  IF set = {} \/ ~resp.writes[1].ok
        THEN ""
        ELSE LET v == resp.lines[CHOOSE i \in set : TRUE][2]
             IN  TrimPrefix(Split(v, ";")[1], "session=")

\* The client of c reads the oldest response and keeps the cookie it sets.
ClientRecv(c) ==
    /\ out[c] # <<>>
    /\ out' = [out EXCEPT ![c] = Tail(@)]
    /\ jar' = [jar EXCEPT ![c] =
                  IF SetCookieOf(Head(out[c]).resp) = "" THEN @ ELSE SetCookieOf(Head(out[c]).resp)]
    /\ UNCHANGED <<workload, pc, inbuf, peerOpen, cur, sessions, born, nextSid, now,
                   files, dirs, crashed>>

\* The client of c closes its end of the connection.
ClientClose(c) ==
    /\ MayHangUp(workload)
    /\ pc[c] # "none"
    /\ peerOpen[c]
    /\ peerOpen' = [peerOpen EXCEPT ![c] = FALSE]
    /\ UNCHANGED <<workload, pc, inbuf, cur, out, jar, sessions, born, nextSid, now,
                   files, dirs, crashed>>

(***************************************************************************)
(* The server's steps.                                                     *)
(***************************************************************************)
\* Start's accept loop: go s.handleConnection(conn).
Accept(c) ==
    /\ ~crashed
    /\ c \in Conns(workload)
    /\ pc[c] = "none"
    /\ pc' = [pc EXCEPT ![c] = "read"]
    /\ UNCHANGED <<workload, inbuf, peerOpen, cur, out, jar, sessions, born, nextSid, now,
                   files, dirs, crashed>>

\* What the handler keeps of an answered exchange, for the client to read.
Exchange(kind, line, rest, c, resp, io, touched) ==
    [kind      |-> kind,
     line      |-> line,
     rest      |-> rest,
     req       |-> cur[c].req,
     sessionID |-> cur[c].sessionID,
     gz        |-> cur[c].gz,
     close     |-> cur[c].close,
     io        |-> io,
     touched   |-> touched,
     resp      |-> resp]

\* handleConnection from the top of its loop to the decoded request: a read
\* error ends the loop (the deferred conn.Close runs), an empty line is
\* skipped, a short request line is answered 400 and ends the loop, a negative
\* Content-Length panics, and a request goes on to the session handling.
ReadRequest(c) ==
    LET d    == Decode(inbuf[c], peerOpen[c])
        line == ReadString(inbuf[c], peerOpen[c]).line
    IN  /\ pc[c] = "read"
        /\ ~crashed
        /\ d.kind # "blocked"
        /\ inbuf' = [inbuf EXCEPT ![c] = d.rest]
        /\ pc' = [pc EXCEPT ![c] =
                     IF d.kind \in {"eof", "bad"} THEN "closed"
                     ELSE IF d.kind = "req" THEN "session" ELSE @]
        /\ crashed' = (d.kind = "panic")
        /\ cur' = [cur EXCEPT ![c] =
                      IF d.kind = "req"
                      THEN [req       |-> d.req,
                            sessionID |-> "",
                            rh        |-> NoHeaders,
                            gz        |-> supportsGzip(Get(d.req.headers, "Accept-Encoding")),
                            close     |-> closeConn(d.req.headers)]
                      ELSE @]
        /\ out' = [out EXCEPT ![c] =
                      IF d.kind = "bad"
                      THEN Append(@, Exchange("bad", line, d.rest, c,
                                     sendResponse(400, "Bad Request", "text/plain", "Bad Request",
                                                  NoHeaders, FALSE, TRUE, <<>>, peerOpen[c]),
                                     "ok", {}))
                      ELSE @]
        /\ UNCHANGED <<workload, peerOpen, jar, sessions, born, nextSid, now, files, dirs>>

SetCookie(sessionID) == "session=" \o sessionID \o "; Path=/"

\* CreateSession and the Set-Cookie header, for the handler of c.
NewSession(c) ==
    /\ nextSid <= MaxSessions
    /\ sessions' = CreateSession
    /\ born' = Put(born, generateSessionID, now)
    /\ nextSid' = nextSid + 1
    /\ cur' = [cur EXCEPT ![c].sessionID = generateSessionID,
                          ![c].rh = Put(@, "Set-Cookie", SetCookie(generateSessionID))]
    /\ pc' = [pc EXCEPT ![c] = "dispatch"]

\* The session handling up to the end of its first critical section: without
\* a session cookie CreateSession, with one GetSession.
SessionLookup(c) ==
    LET sessionID == getSessionCookie(Get(cur[c].req.headers, "Cookie"))
    IN  /\ pc[c] = "session"
        /\ ~crashed
        /\ IF sessionID = ""
           THEN NewSession(c)
           ELSE /\ cur' = [cur EXCEPT ![c].sessionID = sessionID]
                /\ pc' = [pc EXCEPT ![c] =
                             IF GetSession(sessionID).exists THEN "update" ELSE "create"]
                /\ UNCHANGED <<sessions, born, nextSid>>
        /\ UNCHANGED <<workload, inbuf, peerOpen, out, jar, now, files, dirs, crashed>>

\* s.sessionManager.UpdateSession(sessionID) after GetSession found it.
SessionUpdate(c) ==
    /\ pc[c] = "update"
    /\ ~crashed
    /\ sessions' = UpdateSession(cur[c].sessionID)
    /\ pc' = [pc EXCEPT ![c] = "dispatch"]
    /\ UNCHANGED <<workload, inbuf, peerOpen, cur, out, jar, born, nextSid, now, files,
                   dirs, crashed>>

\* s.sessionManager.CreateSession() after GetSession did not find the cookie.
SessionCreate(c) ==
    /\ pc[c] = "create"
    /\ ~crashed
    /\ NewSession(c)
    /\ UNCHANGED <<workload, inbuf, peerOpen, out, jar, now, files, dirs, crashed>>

\* The security headers handleConnection adds to responseHeaders.
SecurityHeaders(rh) ==
    Put(Put(Put(rh, "X-Content-Type-Options", "nosniff"), "X-Frame-Options", "DENY"),
        "X-XSS-Protection", "1; mode=block")

\* The rest of the loop body with a handler that, a return missing, goes on
\* after its response and writes it a second time.
DispatchTwice(c) ==
    LET rq == cur[c].req
        rh == SecurityHeaders(cur[c].rh)
    IN  /\ pc[c] = "dispatch"
        /\ ~crashed
        /\ \E order \in Orderings(workload, rh) :
           \E io \in (IF HasPrefix(rq.path, "/files") THEN DiskOutcomes(workload) ELSE {"ok"}) :
              LET r == handleRequest(rq.method, rq.path, rq.headers, rq.body, rh,
                                     cur[c].gz, cur[c].close, order, peerOpen[c], io)
                  x == Exchange("req", "", inbuf[c], c, r.resp, io, r.touched)
              IN  /\ out' = [out EXCEPT ![c] = Append(Append(@, x), x)]
                  /\ files' = r.files
                  /\ dirs' = r.dirs
        /\ pc' = [pc EXCEPT ![c] = IF cur[c].close THEN "closed" ELSE "read"]
        /\ cur' = [cur EXCEPT ![c] = NoCur]
        /\ UNCHANGED <<workload, inbuf, peerOpen, jar, sessions, born, nextSid, now, crashed>>

\* The rest of the loop body: the security headers, handleRequest, and the
\* break when the request asked for the connection to close.
Dispatch(c) ==
    LET rq == cur[c].req
        rh == SecurityHeaders(cur[c].rh)
    IN  /\ pc[c] = "dispatch"
        /\ ~crashed
        /\ \E order \in Orderings(workload, rh) :
           \E io \in (IF HasPrefix(rq.path, "/files") THEN DiskOutcomes(workload) ELSE {"ok"}) :
              LET r == handleRequest(rq.method, rq.path, rq.headers, rq.body, rh,
                                     cur[c].gz, cur[c].close, order, peerOpen[c], io)
              IN  /\ out' = [out EXCEPT ![c] =
                                Append(@, Exchange("req", "", inbuf[c], c, r.resp, io, r.touched))]
                  /\ files' = r.files
                  /\ dirs' = r.dirs
        /\ pc' = [pc EXCEPT ![c] = IF cur[c].close THEN "closed" ELSE "read"]
        /\ cur' = [cur EXCEPT ![c] = NoCur]
        /\ UNCHANGED <<workload, inbuf, peerOpen, jar, sessions, born, nextSid, now, crashed>>

\* The cleanup goroutine of Start: s.sessionManager.CleanupSessions().
Sweep ==
    /\ ~crashed
    /\ sessions' = CleanupSessions
    /\ UNCHANGED <<workload, pc, inbuf, peerOpen, cur, out, jar, born, nextSid, now,
                   files, dirs, crashed>>

\* Time passes.
Tick ==
    /\ MayTick(workload)
    /\ now < MaxTime
    /\ now' = now + 1
    /\ UNCHANGED <<workload, pc, inbuf, peerOpen, cur, out, jar, sessions, born, nextSid,
                   files, dirs, crashed>>

Next ==
    \/ \E c \in Connections : ClientSend(c)
    \/ \E c \in Connections : ClientRecv(c)
    \/ \E c \in Connections : ClientClose(c)
    \/ \E c \in Connections : Accept(c)
    \/ \E c \in Connections : ReadRequest(c)
    \/ \E c \in Connections : SessionLookup(c)
    \/ \E c \in Connections : SessionUpdate(c)
    \/ \E c \in Connections : SessionCreate(c)
    \/ \E c \in Connections : Dispatch(c)
    \/ Sweep
    \/ Tick

Spec == Init /\ [][Next]_vars

\* The cleanup goroutine of Start is woken by its ticker every five minutes,
\* whatever the connections do: a sweep that would change the store is not
\* put off for ever.
FairSpec == Spec /\ WF_vars(Sweep)

(***************************************************************************)
(* What the properties below speak of.                                     *)
(***************************************************************************)
Last(q) == q[Len(q)]

\* The step in which the handler of c answers the request it holds.
Answers(c) == pc[c] = "dispatch" /\ pc'[c] # "dispatch"

\* The exchanges answered and not yet read by the client, of all connections.
Answered == UNION {{out[c][i] : i \in 1..Len(out[c])} : c \in Connections}

\* The requests that are dispatched among them.
Dispatched == {e \in Answered : e.kind = "req"}

\* A path of the form /files/{name}, its name as sent and as decoded.
IsFileRequest(path) == HasPrefix(path, "/files/") /\ path # "/files/"
NameOf(path) == QueryUnescape(TrimPrefix(path, "/files/"))

\* The storage root and the file a decoded name resolves to.
StorageRoot == Abs(FilesDir)
Resolve(name) == Abs(Join(FilesDir, name))
Inside(p) == p = StorageRoot \/ HasPrefix(p, StorageRoot \o "/")

\* The name of path decodes and resolves outside the storage root.
Escapes(path) ==
    IsFileRequest(path) /\ NameOf(path).ok /\ ~Inside(Resolve(NameOf(path).val))

\* The name of path passes decoding and the containment check.
Admitted(path) ==
    IsFileRequest(path) /\ NameOf(path).ok /\ ~TraversalDetected(NameOf(path).val)

\* The body a response carries for the plain body b.
Sent(e, b) == IF e.gz /\ Len(b) > 0 THEN Gzip(b) ELSE b

(***************************************************************************)
(* C1: a /files/{name} request of any method whose decoded name resolves   *)
(* outside the storage root, however the name is encoded, is answered 403, *)
(* and answering it passes no path to a file system call and leaves every  *)
(* file and directory as it was.                                           *)
(***************************************************************************)
C1_TraversalForbidden ==
    [][\A c \in Connections :
          (Answers(c) /\ Escapes(cur[c].req.path))
             => /\ Last(out'[c]).resp.status = 403
                /\ Last(out'[c]).touched = {}
                /\ files' = files
                /\ dirs' = dirs]_vars

\* A DELETE whose name leaves the root through percent-encoded dots has been
\* answered 403.
C1_Witness ==
    \E e \in Dispatched :
        /\ e.req.method = "DELETE"
        /\ Escapes(e.req.path)
        /\ Contains(e.req.path, "%2e%2e")
        /\ e.resp.status = 403

(***************************************************************************)
(* C2: for a name that passes the checks of handleFiles, a POST answered   *)
(* 201 leaves the file holding exactly the posted body, whatever it held   *)
(* before; a GET of a file that is there returns 200 and its bytes when    *)
(* the disk does not fail, a GET of one that is not returns 404; a DELETE  *)
(* answered 200 leaves no file of that name.                               *)
(***************************************************************************)
C2_RoundTrip ==
    [][\A c \in Connections :
          (Answers(c) /\ Admitted(cur[c].req.path))
             => LET rq == cur[c].req
                    p  == Resolve(NameOf(rq.path).val)
                    e  == Last(out'[c])
                IN  /\ (rq.method = "POST" /\ e.resp.status = 201)
                          => (p \in DOMAIN files' /\ files'[p] = rq.body)
                    /\ (rq.method = "GET" /\ p \in DOMAIN files /\ e.io = "ok")
                          => (e.resp.status = 200 /\ e.resp.body = Sent(e, files[p]))
                    /\ (rq.method = "GET" /\ p \notin DOMAIN files)
                          => e.resp.status = 404
                    /\ (rq.method = "DELETE" /\ e.resp.status = 200)
                          => (p \notin DOMAIN files' /\ p \notin dirs')]_vars

\* A GET has returned the bytes "yz", which only a POST can have stored.
C2_Witness ==
    \E e \in Dispatched :
        /\ e.req.method = "GET"
        /\ Admitted(e.req.path)
        /\ e.resp.status = 200
        /\ e.resp.body = "yz"

(***************************************************************************)
(* C8: the bytes of every response written hold exactly one Content-Length *)
(* line, it is the last line before the blank line, and its value is the   *)
(* number of bytes written after the blank line, 0 when there are none.    *)
(***************************************************************************)
\* The first position of sub in the bytes s, 0 when there is none.
Find(s, sub) ==
    LET hits == {i \in 1..(Len(s) - Len(sub) + 1) : SubSeq(s, i, i + Len(sub) - 1) = sub}
    IN  IF hits = {} THEN 0 ELSE CHOOSE i \in hits : \A j \in hits : i <= j

\* The lines of the bytes s, which end with \r\n each.
RECURSIVE LinesOf(_)
LinesOf(s) ==
    LET i == Find(s, "\r\n")
    IN  IF i = 0 THEN <<>> ELSE <<SubSeq(s, 1, i - 1)>> \o LinesOf(SubSeq(s, i + 2, Len(s)))

\* The bytes of a response as conn.Write has sent them.
Wire(resp) ==
    IF Len(resp.writes) = 2
    THEN resp.writes[1].data \o resp.writes[2].data
    ELSE resp.writes[1].data

C8_ContentLengthLast ==
    \A e \in Answered :
        e.resp.writes[1].ok
           => LET wire  == Wire(e.resp)
                  blank == Find(wire, "\r\n\r\n")
                  lines == LinesOf(SubSeq(wire, 1, blank + 1))
                  body  == SubSeq(wire, blank + 4, Len(wire))
                  named == {i \in 2..Len(lines) : HasPrefix(lines[i], "Content-Length: ")}
              IN  /\ blank > 0
                  /\ named = {Len(lines)}
                  /\ Last(lines) = "Content-Length: " \o Itoa(Len(body))

\* A response with a compressed body and one without a body have been written.
C8_Witness ==
    /\ \E e \in Answered :
          /\ e.resp.writes[1].ok
          /\ Len(e.resp.writes) = 2
          /\ e.gz
          /\ e.resp.body # ""
          /\ e.resp.status = 404

(***************************************************************************)
(* C9: a /files/{name} request whose name passes decoding and the          *)
(* containment check and whose method is none of GET, POST and DELETE is   *)
(* answered 405, and answering it passes no path to a file system call and *)
(* leaves every file and directory as it was.                              *)
(***************************************************************************)
C9_OtherMethodsRefused ==
    [][\A c \in Connections :
          (/\ Answers(c)
           /\ Admitted(cur[c].req.path)
           /\ cur[c].req.method \notin {"GET", "POST", "DELETE"})
             => /\ Last(out'[c]).resp.status = 405
                /\ Last(out'[c]).touched = {}
                /\ files' = files
                /\ dirs' = dirs]_vars

\* A PUT of a name that is stored has been answered 405.
C9_Witness ==
    \E e \in Dispatched :
        /\ e.req.method = "PUT"
        /\ Admitted(e.req.path)
        /\ Resolve(NameOf(e.req.path).val) \in DOMAIN files
        /\ e.resp.status = 405

(***************************************************************************)
(* C3: when the handler has answered a request that does not carry         *)
(* Connection: close, it goes on to read the next request of the same      *)
(* connection; when the request carries Connection: close, the value in    *)
(* any letter case, the handler writes the response and ends; and once the *)
(* handler of a connection has ended, nothing more is answered on it.      *)
(***************************************************************************)
CarriesClose(headers) ==
    "Connection" \in DOMAIN headers /\ ToLower(headers["Connection"]) = "close"

C3_KeepAliveUnlessClose ==
    [][\A c \in Connections :
          /\ Answers(c)
                => /\ Len(out'[c]) = Len(out[c]) + 1
                   /\ Len(Last(out'[c]).resp.writes) >= 1
                   /\ pc'[c] = IF CarriesClose(cur[c].req.headers) THEN "closed" ELSE "read"
          /\ pc[c] = "closed"
                => (pc'[c] = "closed" /\ Len(out'[c]) <= Len(out[c]))]_vars

\* The second request of a connection (the second session was made for it)
\* has been answered, and as it carried Connection: Close the handler has
\* ended.
C3_Witness ==
    \E e \in Dispatched :
        /\ workload = "codec"
        /\ e.sessionID = "sid2"
        /\ Get(e.req.headers, "Connection") = "Close"
        /\ e.resp.writes[1].ok
        /\ pc["c1"] = "closed"

(***************************************************************************)
(* C4 as it is stated: every response with a body, whatever its status,    *)
(* sent for a request whose Accept-Encoding lists gzip carries             *)
(* Content-Encoding: gzip and a gzip member as its body, with              *)
(* Content-Length the member's length.                                     *)
(***************************************************************************)
\* The header lines sent with the request of an exchange.
RequestHeaders(e) ==
    IF e.kind = "req" THEN e.req.headers ELSE parseHeaders(e.rest, FALSE).headers

\* gzip is one of the comma-separated items of an Accept-Encoding value.
ListsGzip(v) ==
    v # "" /\ \E i \in 1..Len(Split(v, ",")) : TrimSpace(Split(v, ",")[i]) = "gzip"

HasLine(resp, name, value) ==
    \E i \in 1..Len(resp.lines) : resp.lines[i] = <<name, value>>

HasLineNamed(resp, name) ==
    \E i \in 1..Len(resp.lines) : resp.lines[i][1] = name

C4_GzipOnEveryBody ==
    \A e \in Answered :
        (/\ ListsGzip(Get(RequestHeaders(e), "Accept-Encoding"))
         /\ e.resp.body # "")
           => /\ HasLine(e.resp, "Content-Encoding", "gzip")
              /\ HasPrefix(e.resp.body, "<gzip:")
              /\ HasLine(e.resp, "Content-Length", Itoa(Len(e.resp.body)))

(***************************************************************************)
(* C4, amended: the response to a dispatched request whose Accept-Encoding *)
(* lists gzip has the status it would have without negotiation and, when   *)
(* the body it would have is not empty, the gzip encoding of that body,    *)
(* Content-Encoding: gzip and the encoded length as Content-Length; the    *)
(* 400 that answers a short request line is never encoded.                 *)
(***************************************************************************)
C4_GzipOnDispatched ==
    [][\A c \in Connections :
          /\ (Answers(c) /\ ListsGzip(Get(cur[c].req.headers, "Accept-Encoding")))
                => LET rq    == cur[c].req
                       rh    == SecurityHeaders(cur[c].rh)
                       e     == Last(out'[c])
                       plain == handleRequest(rq.method, rq.path, rq.headers, rq.body, rh,
                                              FALSE, cur[c].close, SortedNames(DOMAIN rh),
                                              peerOpen[c], e.io).resp
                   IN  /\ e.resp.status = plain.status
                       /\ ~HasLineNamed(plain, "Content-Encoding")
                       /\ plain.body = ""
                             => (e.resp.body = "" /\ ~HasLineNamed(e.resp, "Content-Encoding"))
                       /\ plain.body # ""
                             => /\ e.resp.body = Gzip(plain.body)
                                /\ HasLine(e.resp, "Content-Encoding", "gzip")
                                /\ HasLine(e.resp, "Content-Length", Itoa(Len(e.resp.body)))
          /\ (pc[c] = "read" /\ Len(out'[c]) = Len(out[c]) + 1)
                => ~HasLineNamed(Last(out'[c]).resp, "Content-Encoding")]_vars

\* A 405 has been sent with its body encoded.
C4_Witness ==
    \E e \in Dispatched :
        /\ Get(e.req.headers, "Accept-Encoding") = "gzip"
        /\ e.resp.status = 405
        /\ e.resp.body = Gzip("Method not allowed")
        /\ HasLine(e.resp, "Content-Encoding", "gzip")

(***************************************************************************)
(* C5: a request without a session cookie is answered with a Set-Cookie    *)
(* that names a session created for it; and when a cookie the server has   *)
(* issued, whose session is still stored, comes back on /api/session, the  *)
(* response reports that identifier and, as the age, the time since the    *)
(* session was created.                                                    *)
(***************************************************************************)
\* The value of the header called name, in whatever letter case it was sent;
\* "" when there is none.
HeaderNamed(headers, name) ==
    LET sent == {k \in DOMAIN headers : ToLower(k) = ToLower(name)}
    IN  IF sent = {} THEN "" ELSE headers[CHOOSE k \in sent : TRUE]

CookieOf(headers) == getSessionCookie(HeaderNamed(headers, "Cookie"))

C5_ReplayReportsAge ==
    [][\A c \in Connections :
          Answers(c)
             => LET rq == cur[c].req
                    id == CookieOf(rq.headers)
                    e  == Last(out'[c])
                IN  /\ id = ""
                          => /\ cur[c].sessionID \in DOMAIN born
                             /\ HasLine(e.resp, "Set-Cookie", SetCookie(cur[c].sessionID))
                    /\ (rq.path = "/api/session" /\ id \in DOMAIN born /\ id \in DOMAIN sessions)
                          => /\ Contains(e.resp.body, "\"session_id\":" \o Quote(id))
                             /\ Contains(e.resp.body,
                                         "\"age\":" \o Quote(SinceString(born[id])))]_vars

(***************************************************************************)
(* C6: a request is handled by the values of its Content-Length,           *)
(* Connection, Accept-Encoding, Cookie and User-Agent headers in whatever  *)
(* letter case their names were sent: the body has the declared length,    *)
(* the connection closes when asked, gzip is negotiated when listed, the   *)
(* session of the cookie is the one used, and /user-agent echoes the user  *)
(* agent.                                                                  *)
(***************************************************************************)
IsNumber(v) == v # "" /\ \A i \in 1..Len(v) : IsDigit(CharAt(v, i))

C6_HeaderNamesAnyCase ==
    \A e \in Dispatched :
        LET h == e.req.headers
        IN  /\ IsNumber(HeaderNamed(h, "Content-Length"))
                  => Len(e.req.body) = Atoi(HeaderNamed(h, "Content-Length"))
            /\ e.close = (ToLower(HeaderNamed(h, "Connection")) = "close")
            /\ e.gz = supportsGzip(HeaderNamed(h, "Accept-Encoding"))
            /\ CookieOf(h) \in DOMAIN sessions => e.sessionID = CookieOf(h)
            /\ (e.req.path = "/user-agent" /\ e.req.method = "GET")
                  => e.resp.body = Sent(e, HeaderNamed(h, "User-Agent"))

(***************************************************************************)
(* C7: whatever bytes a connection carries, the server process keeps       *)
(* running: no handler brings it down, so the listener and the handlers of *)
(* the other connections go on.                                            *)
(***************************************************************************)
C7_NeverCrashes == ~crashed

(***************************************************************************)
(* C10: /api/status, /api/time and /api/session answer GET with 200 and    *)
(* every other method with 405; /api/echo answers POST and PUT with 200    *)
(* and the request body, and every other method with 405.                  *)
(***************************************************************************)
C10_ApiMethodGated ==
    \A e \in Dispatched :
        /\ e.req.path \in {"/api/status", "/api/time", "/api/session"}
              => e.resp.status = IF e.req.method = "GET" THEN 200 ELSE 405
        /\ e.req.path = "/api/echo"
              => IF e.req.method \in {"POST", "PUT"}
                 THEN e.resp.status = 200 /\ e.resp.body = Sent(e, e.req.body)
                 ELSE e.resp.status = 405

(***************************************************************************)
(* C11: a GET of /user-agent is answered 200 with, as its body, the value  *)
(* of the request's User-Agent header, the empty body when the request has *)
(* none; a request for /user-agent with any other method is answered 405.  *)
(***************************************************************************)
C11_UserAgentEchoed ==
    \A e \in Dispatched :
        e.req.path = "/user-agent" =>
            IF e.req.method = "GET"
            THEN /\ e.resp.status = 200
                 /\ e.resp.body =
                        (IF "User-Agent" \in DOMAIN e.req.headers
                         THEN Sent(e, e.req.headers["User-Agent"]) ELSE "")
            ELSE e.resp.status = 405

C11_Witness ==
    \E e \in Dispatched :
        /\ e.req.path = "/user-agent" /\ e.req.method = "GET"
        /\ "User-Agent" \in DOMAIN e.req.headers
        /\ e.resp.status = 200 /\ e.resp.body = "X"

\* The prefix of the echo route.
EchoPrefix == "/echo/"

(***************************************************************************)
(* C12: a request for /echo/{s}, s without a slash, answered without gzip  *)
(* gets 200 with Content-Type text/plain, the body s exactly as it stands  *)
(* in the path (not decoded, not trimmed) and Content-Length the number of *)
(* bytes of s.                                                             *)
(***************************************************************************)
C12_EchoVerbatim ==
    \A e \in Dispatched :
        LET path == e.req.path
            s    == SubSeq(path, Len(EchoPrefix) + 1, Len(path))
        IN  (/\ Len(path) >= Len(EchoPrefix)
             /\ SubSeq(path, 1, Len(EchoPrefix)) = EchoPrefix
             /\ \A i \in 1..Len(s) : CharAt(s, i) # "/"
             /\ ~e.gz)
                => /\ e.resp.status = 200
                   /\ HasLine(e.resp, "Content-Type", "text/plain")
                   /\ e.resp.body = s
                   /\ HasLine(e.resp, "Content-Length", Itoa(Len(s)))

C12_Witness ==
    \E e \in Dispatched :
        /\ e.req.path = "/echo/%41+b" /\ ~e.gz
        /\ e.resp.status = 200 /\ e.resp.body = "%41+b"
        /\ HasLine(e.resp, "Content-Length", "5")

\* The cases of the router, as tests of the path token.
StartsWith(path, p) == Len(path) >= Len(p) /\ SubSeq(path, 1, Len(p)) = p

ApiPaths == {"/api/status", "/api/time", "/api/echo", "/api/session"}

MatchesRoute(path) ==
    \/ path = "/"
    \/ StartsWith(path, EchoPrefix)
    \/ path = "/user-agent"
    \/ path \in ApiPaths
    \/ StartsWith(path, "/files")

IsNotFound(e) == e.resp.status = 404 /\ e.resp.body = Sent(e, "Not Found")

(***************************************************************************)
(* C13: the routes are tried in a fixed order (the path /, the prefix      *)
(* /echo/, the path /user-agent, the /api/ endpoints, the prefix /files)   *)
(* and the first that matches the path token answers; the answer is 404    *)
(* with the body "Not Found" exactly when the path token as it was sent,   *)
(* query string included, matches none of them.                            *)
(***************************************************************************)
C13_RoutesInOrder ==
    \A e \in Dispatched :
        LET path == e.req.path
        IN  /\ IsNotFound(e) <=> ~MatchesRoute(path)
            /\ path = "/" =>
                  /\ e.resp.status = 200
                  /\ e.resp.body = Sent(e, "Welcome to the Go Web Server")
            /\ StartsWith(path, EchoPrefix) =>
                  /\ e.resp.status = 200
                  /\ e.resp.body = Sent(e, SubSeq(path, Len(EchoPrefix) + 1, Len(path)))
            /\ path = "/user-agent" => e.resp.status \in {200, 405}
            /\ path \in ApiPaths =>
                  \/ e.resp.status = 200 /\ HasLine(e.resp, "Content-Type", "application/json")
                  \/ e.resp.status = 405
            /\ StartsWith(path, "/files") =>
                  e.resp.status \in {200, 201, 400, 403, 404, 405, 500}

C13_Witness ==
    \E e \in Dispatched :
        /\ e.req.path = "/api/session?x=1"
        /\ e.resp.status = 404 /\ e.resp.body = "Not Found"

(***************************************************************************)
(* C14: every response the server sends, whatever the route and whatever   *)
(* the status code, carries X-Content-Type-Options: nosniff,               *)
(* X-Frame-Options: DENY and X-XSS-Protection: 1; mode=block.              *)
(***************************************************************************)
C14_SecurityHeadersAlways ==
    \A e \in Answered :
        /\ HasLine(e.resp, "X-Content-Type-Options", "nosniff")
        /\ HasLine(e.resp, "X-Frame-Options", "DENY")
        /\ HasLine(e.resp, "X-XSS-Protection", "1; mode=block")

(***************************************************************************)
(* C15: a sweep removes every entry whose last access lies more than       *)
(* thirty minutes back and no entry accessed within the last thirty        *)
(* minutes; right after a sweep the lookup of an identifier that had been  *)
(* idle for more than thirty minutes finds nothing.  The first conjunct    *)
(* states it of the sweep of every reachable store, the second of every    *)
(* step in which an entry leaves the store.                                *)
(***************************************************************************)
C15_SweepRemovesExpiredOnly ==
    /\ [](\A id \in DOMAIN sessions :
            IF now - sessions[id] > IdleWindow
            THEN id \notin DOMAIN CleanupSessions
            ELSE id \in DOMAIN CleanupSessions /\ CleanupSessions[id] = sessions[id])
    /\ [][(\E id \in DOMAIN sessions : id \notin DOMAIN sessions')
              => /\ now' = now
                 /\ \A id \in DOMAIN sessions :
                       IF now - sessions[id] > IdleWindow
                       THEN id \notin DOMAIN sessions'
                       ELSE id \in DOMAIN sessions' /\ sessions'[id] = sessions[id]
                 /\ DOMAIN sessions' \subseteq DOMAIN sessions]_vars

C15_Witness ==
    /\ \E id \in DOMAIN born : id \notin DOMAIN sessions /\ ~GetSession(id).exists
    /\ \E id \in DOMAIN sessions : now - sessions[id] = IdleWindow

(***************************************************************************)
(* C16: a request line of fewer than two space-separated tokens, the empty *)
(* line included, is answered 400 Bad Request and the connection is        *)
(* closed; a request line with at least a method and a path is not treated *)
(* as malformed, the version token being ignored.  Stated of every step in *)
(* which a handler consumes a request line.                                *)
(***************************************************************************)
C16_TwoTokensSuffice ==
    [][\A c \in Connections :
          LET r     == ReadString(inbuf[c], TRUE)
              parts == Split(TrimSpace(r.line), " ")
          IN  (pc[c] = "read" /\ r.kind = "line" /\ inbuf'[c] # inbuf[c])
                 => IF Len(parts) < 2
                    THEN /\ Len(out'[c]) = Len(out[c]) + 1
                         /\ Last(out'[c]).resp.status = 400
                         /\ pc'[c] = "closed"
                    ELSE out'[c] = out[c]]_vars

\* C16 as it holds: an empty line is skipped without a response and the
\* handler reads on; a non-empty line of fewer than three tokens is answered
\* 400 Bad Request and the connection closed; a line of three or more tokens
\* is not answered 400 by the reader, whatever its third token.
C16_ThreeTokensRequired ==
    [][\A c \in Connections :
          LET r     == ReadString(inbuf[c], TRUE)
              parts == Split(TrimSpace(r.line), " ")
          IN  (pc[c] = "read" /\ r.kind = "line" /\ inbuf'[c] # inbuf[c])
                 => IF TrimSpace(r.line) = ""
                    THEN /\ out'[c] = out[c]
                         /\ pc'[c] = "read"
                         /\ inbuf'[c] = r.rest
                    ELSE IF Len(parts) < 3
                    THEN /\ Len(out'[c]) = Len(out[c]) + 1
                         /\ Last(out'[c]).resp.status = 400
                         /\ Last(out'[c]).resp.body = "Bad Request"
                         /\ pc'[c] = "closed"
                    ELSE out'[c] = out[c]]_vars

C16_Witness ==
    \E c \in Connections :
        /\ pc[c] = "closed"
        /\ out[c] # <<>>
        /\ Last(out[c]).kind = "bad"
        /\ Last(out[c]).line = "GET /" \o CRLF
        /\ Last(out[c]).resp.status = 400

(***************************************************************************)
(* C17: when a request declares Content-Length n and the stream ends       *)
(* before n bytes of body have arrived, the request is not dispatched: no  *)
(* response is written for it and no stored resource changes.  Stated as:  *)
(* no answered exchange is that of a request whose body came short, and    *)
(* no step that answers such a request changes the files.                  *)
(***************************************************************************)
C17_ShortBodyNotDispatched ==
    /\ [](\A e \in Dispatched : ~e.req.short)
    /\ [][\A c \in Connections :
              (Answers(c) /\ cur[c].req.short) => files' = files /\ dirs' = dirs]_vars

(***************************************************************************)
(* C18: on one connection every decoded request gets exactly one response  *)
(* and the k-th response answers the k-th request: the handler takes a     *)
(* request in hand only when it holds none, and the request is the one the *)
(* decoder returns for the unread bytes; while it holds a request it reads *)
(* no further byte of the connection; it lets go of the request in the     *)
(* step that appends the one response to it to the responses written so    *)
(* far; and no other response is written but the 400 to a request line     *)
(* that could not be decoded.                                              *)
(***************************************************************************)
C18_OneResponseInOrder ==
    [][\A c \in Connections :
          LET holds == cur[c] # NoCur
              d     == Decode(inbuf[c], peerOpen[c])
          IN  /\ (cur'[c] # cur[c] /\ ~holds)
                    => /\ pc[c] = "read"
                       /\ d.kind = "req"
                       /\ cur'[c].req = d.req
                       /\ inbuf'[c] = d.rest
                       /\ out'[c] = out[c]
              /\ holds
                    => /\ inbuf'[c] = inbuf[c]
                       /\ \/ cur'[c].req = cur[c].req /\ Len(out'[c]) <= Len(out[c])
                          \/ /\ cur'[c] = NoCur
                             /\ Len(out'[c]) = Len(out[c]) + 1
                             /\ out'[c] = Append(out[c], Last(out'[c]))
                             /\ Last(out'[c]).kind = "req"
                             /\ Last(out'[c]).req = cur[c].req
              /\ (Len(out'[c]) > Len(out[c]) /\ ~holds)
                    => /\ pc[c] = "read"
                       /\ d.kind = "bad"
                       /\ out'[c] = Append(out[c], Last(out'[c]))
                       /\ Last(out'[c]).kind = "bad"
                       /\ pc'[c] = "closed"]_vars

C18_Witness ==
    \E c \in Connections :
        /\ Len(out[c]) = 2
        /\ out[c][1].kind = "req" /\ out[c][1].req.path = "/user-agent"
        /\ out[c][1].resp.body = "X"
        /\ out[c][2].kind = "req" /\ out[c][2].req.path = "/echo/abc"
        /\ out[c][2].resp.body = "abc"

(***************************************************************************)
(* C19: when the stream ends while the handler reads the request line or   *)
(* the header block, the loop ends without a response for that iteration   *)
(* and without a session created; and on every way out of the loop the     *)
(* connection is closed once: a closed connection stays closed, and        *)
(* nothing more is read from it or written to it.                          *)
(***************************************************************************)
C19_ReadErrorEndsQuietly ==
    [][\A c \in Connections :
          LET buf     == inbuf[c]
              lineEnd == Index(buf, "\n")
              line    == TrimSpace(SubSeq(buf, 1, lineEnd))
              segs    == Split(SubSeq(buf, lineEnd + 1, Len(buf)), "\n")
              inLine  == lineEnd = 0
              inHead  == /\ lineEnd > 0
                         /\ line # ""
                         /\ Len(Split(line, " ")) >= 3
                         /\ \A i \in 1..(Len(segs) - 1) : TrimSpace(segs[i]) # ""
          IN  /\ (/\ pc[c] = "read" /\ ~peerOpen[c] /\ ~crashed
                  /\ inLine \/ inHead
                  /\ pc'[c] # pc[c] \/ inbuf'[c] # inbuf[c])
                    => /\ pc'[c] = "closed"
                       /\ out'[c] = out[c]
                       /\ sessions' = sessions
                       /\ nextSid' = nextSid
                       /\ cur'[c] = NoCur
              /\ pc[c] = "closed"
                    => /\ pc'[c] = "closed"
                       /\ inbuf'[c] = inbuf[c]
                       /\ Len(out'[c]) <= Len(out[c])]_vars

C19_Witness ==
    \E c \in Connections :
        /\ pc[c] = "closed"
        /\ ~peerOpen[c]
        /\ inbuf[c] = ""
        /\ out[c] = <<>>
        /\ nextSid = 1
        /\ sessions = NoSessions

(***************************************************************************)
(* C20: for every dispatched request, if its Cookie header has no session= *)
(* value or the value is not found by the lookup, exactly one new session  *)
(* is created and the response carries Set-Cookie with the new identifier; *)
(* otherwise the timestamp of the existing session is refreshed, no        *)
(* session is created and the response carries no Set-Cookie.  After the   *)
(* exchange the identifier the handler associated with the request is      *)
(* present in the store.                                                   *)
(*                                                                         *)
(* SessionHandled(c) states the first sentence of the steps of the handler *)
(* of c: the lookup, the creation, the refresh, and the response.          *)
(***************************************************************************)
SessionHandled(c) ==
    LET id      == getSessionCookie(Get(cur[c].req.headers, "Cookie"))
        found   == id \in DOMAIN sessions
        Created ==
            \E new \in DOMAIN sessions' :
                /\ new \notin DOMAIN born
                /\ DOMAIN sessions' = DOMAIN sessions \cup {new}
                /\ \A o \in DOMAIN sessions : sessions'[o] = sessions[o]
                /\ sessions'[new] = now
                /\ nextSid' = nextSid + 1
                /\ cur'[c].sessionID = new
                /\ "Set-Cookie" \in DOMAIN cur'[c].rh
                /\ cur'[c].rh["Set-Cookie"] = "session=" \o new \o "; Path=/"
                /\ pc'[c] = "dispatch"
    IN  /\ (pc[c] = "session" /\ pc'[c] # "session")
              => IF id = ""
                 THEN Created
                 ELSE /\ pc'[c] = (IF found THEN "update" ELSE "create")
                      /\ cur'[c].sessionID = id
                      /\ sessions' = sessions /\ nextSid' = nextSid
        /\ (pc[c] = "create" /\ pc'[c] # "create") => Created
        /\ (pc[c] = "update" /\ pc'[c] # "update")
              => /\ cur[c].sessionID = id
                 /\ DOMAIN sessions' = DOMAIN sessions \cup {id}
                 /\ sessions'[id] = now
                 /\ \A o \in DOMAIN sessions \ {id} : sessions'[o] = sessions[o]
                 /\ nextSid' = nextSid
                 /\ cur'[c] = cur[c]
                 /\ "Set-Cookie" \notin DOMAIN cur[c].rh
                 /\ pc'[c] = "dispatch"
        /\ Answers(c)
              => LET resp == Last(out'[c]).resp
                     set  == {i \in 1..Len(resp.lines) : resp.lines[i][1] = "Set-Cookie"}
                 IN  IF "Set-Cookie" \in DOMAIN cur[c].rh
                     THEN /\ Cardinality(set) = 1
                          /\ HasLine(resp, "Set-Cookie",
                                     "session=" \o cur[c].sessionID \o "; Path=/")
                     ELSE set = {}

\* C20: the session handling as SessionHandled states it, and after the
\* exchange the identifier the handler associated with the request is present
\* in the store.
C20_SessionPresentAfterExchange ==
    [][\A c \in Connections :
          /\ SessionHandled(c)
          /\ Answers(c) => cur[c].sessionID \in DOMAIN sessions']_vars

\* C20 as it holds: the first sentence as stated; the identifier is present,
\* with the current time as its timestamp, when the session handling of the
\* request ends, and until the response is written it leaves the store only
\* by a sweep that finds it idle for more than thirty minutes.
C20_SessionPresentUnlessExpired ==
    [][\A c \in Connections :
          /\ SessionHandled(c)
          /\ (pc[c] # "dispatch" /\ pc'[c] = "dispatch")
                => /\ cur'[c].sessionID \in DOMAIN sessions'
                   /\ sessions'[cur'[c].sessionID] = now
          /\ (/\ pc[c] = "dispatch"
              /\ cur[c].sessionID \in DOMAIN sessions
              /\ cur[c].sessionID \notin DOMAIN sessions')
                => now - sessions[cur[c].sessionID] > IdleWindow]_vars

C20_Witness ==
    \E e \in Dispatched :
        /\ e.sessionID \in DOMAIN sessions
        /\ getSessionCookie(Get(e.req.headers, "Cookie")) = e.sessionID
        /\ ~HasLineNamed(e.resp, "Set-Cookie")
        /\ sessions[e.sessionID] = now
        /\ born[e.sessionID] < now

(***************************************************************************)
(* C21: with the sweeper running again and again, a session that is not    *)
(* accessed any more is eventually removed: whenever an identifier is in   *)
(* the store with a last access more than thirty minutes back, a later     *)
(* state has it out of the store or accessed again, whether or not any     *)
(* request is sent or handled in between.                                  *)
(***************************************************************************)
C21_IdleSessionEventuallyRemoved ==
    \A id \in {"sid" \o Itoa(i) : i \in 1..MaxSessions} :
        (id \in DOMAIN sessions /\ now - sessions[id] > IdleWindow)
            ~> ~(id \in DOMAIN sessions /\ now - sessions[id] > IdleWindow)

C21_Witness ==
    \E id \in DOMAIN born :
        /\ id \notin DOMAIN sessions
        /\ now - born[id] > IdleWindow
        /\ \A c \in Connections : pc[c] \in {"none", "read", "closed"}

(***************************************************************************)
(* C22: the bytes of a response are determined by what sendResponse is     *)
(* given: two responses built from the same status, content type, body,    *)
(* header mapping, gzip flag and close flag are identical byte for byte,   *)
(* the configured headers standing in the same order in both.  Stated of   *)
(* any two answered exchanges: when their status, their body, their flags  *)
(* and the set of their header lines agree, so do the bytes written.       *)
(***************************************************************************)
C22_SerializationDeterministic ==
    \A e1, e2 \in Answered :
        (/\ e1.resp.status = e2.resp.status
         /\ e1.resp.text = e2.resp.text
         /\ e1.resp.body = e2.resp.body
         /\ e1.gz = e2.gz
         /\ e1.close = e2.close
         /\ {e1.resp.lines[i] : i \in 1..Len(e1.resp.lines)}
               = {e2.resp.lines[i] : i \in 1..Len(e2.resp.lines)})
            => Wire(e1.resp) = Wire(e2.resp)

(***************************************************************************)
(* C23: when the write of the status line and headers of a response fails, *)
(* the response is given up: the write of the body is not attempted and no *)
(* write is made again, and the handler does not crash.                    *)
(***************************************************************************)
C23_FailedHeadEndsResponse ==
    \A e \in Answered :
        ~e.resp.writes[1].ok => Len(e.resp.writes) = 1 /\ ~crashed

(***************************************************************************)
(* C24: for /files/{name}, a name that fails percent-decoding is answered  *)
(* 400 before any other check; otherwise the answer is 403 exactly when    *)
(* the resolved target does not have the resolved root as a prefix or the  *)
(* decoded name has a path segment "..", so a name that resolves inside    *)
(* the root and has two dots only within a segment (a..b) is not refused   *)
(* and reaches the switch on the method.                                   *)
(***************************************************************************)
C24_RefusedExactlyOnDotDotSegment ==
    \A e \in Dispatched :
        IsFileRequest(e.req.path) =>
            LET name     == NameOf(e.req.path)
                segments == Split(name.val, "/")
                dotdot   == \E i \in 1..Len(segments) : segments[i] = ".."
            IN  IF ~name.ok
                THEN e.resp.status = 400
                ELSE e.resp.status = 403
                        <=> (~HasPrefix(Resolve(name.val), StorageRoot) \/ dotdot)

(***************************************************************************)
(* C25: the stored files and directories change only in a step that        *)
(* answers a POST of /files/{name} with 201 or a DELETE of /files/{name}   *)
(* with 200, the name having passed the containment check, and then only   *)
(* the addressed name changes; every other step (the answer to any other   *)
(* request, whatever its status, a read, a close, a sweep) leaves them all *)
(* as they were.                                                           *)
(***************************************************************************)
C25_OnlyPostAndDeleteChangeFiles ==
    [][(files' # files \/ dirs' # dirs)
          => \E c \in Connections :
                LET path   == cur[c].req.path
                    method == cur[c].req.method
                    status == Last(out'[c]).resp.status
                    target == Resolve(NameOf(path).val)
                IN  /\ Answers(c)
                    /\ Admitted(path)
                    /\ \/ method = "POST" /\ status = 201
                       \/ method = "DELETE" /\ status = 200
                    /\ dirs' \ {target} = dirs \ {target}
                    /\ (DOMAIN files') \ {target} = (DOMAIN files) \ {target}
                    /\ \A f \in (DOMAIN files) \ {target} : files'[f] = files[f]]_vars

(***************************************************************************)
(* C26: however the handlers and the sweeper interleave, only the creation *)
(* of a session adds an identifier to the store, and a refresh only sets   *)
(* the timestamp of an identifier that is in it: an identifier that enters *)
(* the store in a step was never issued before, so one that a sweep        *)
(* removed does not come back.                                             *)
(***************************************************************************)
C26_SweptNeverReappears ==
    [][\A id \in DOMAIN sessions' :
          id \notin DOMAIN sessions => id \notin DOMAIN born]_vars

(***************************************************************************)
(* C27: the session_id reported in a response to /api/session is the       *)
(* identifier the handler associated with the request (the one it has just *)
(* created and sent in Set-Cookie, or the cookie it found and refreshed):  *)
(* it is never empty and never an identifier the store has not issued, and *)
(* the reported creation time is the timestamp stored for it.              *)
(***************************************************************************)
C27_ReportsHandlersSession ==
    \A e \in Dispatched :
        (e.req.path = "/api/session" /\ e.resp.status = 200)
            => /\ e.sessionID # ""
               /\ e.sessionID \in DOMAIN born
               /\ Find(e.resp.body, "\"session_id\":" \o Quote(e.sessionID) \o "}") > 0
               /\ Find(e.resp.body, "\"created_at\":\"0001-01-01T00:00:00Z\"") = 0

====
